---- MODULE Spec2Model ----
(***************************************************************************)
(* Model of streamlit_app.py, the Abalone Age Predictor page.              *)
(*                                                                         *)
(* Units.  Slider values are multiples of the slider step 0.01, so every   *)
(* measurement is held as an integer number of hundredths.  Ring counts    *)
(* and ages are held in thousandths.  The two ratio features are exact     *)
(* fractions whose numerator and denominator are counted in units of the   *)
(* epsilon 1e-8 the code adds to the denominator.                          *)
(*                                                                         *)
(* One script run is split into the steps of the handler of the Predict    *)
(* button; pc is the position of the run.  A rerun caused by moving a      *)
(* slider executes none of the handler and is a single action.             *)
(***************************************************************************)
EXTENDS Integers, Sequences, FiniteSets, TLC

\* Number of extra slider positions tried between the ends of each slider.
GridN == 1

\* y_pred + 1.5 (line 111), in thousandths.
AgeOffset == 1500
\* 1e-8 (lines 93-94) is the unit of the ratio fractions; 0.01 is 10^6 of it.
HundredthInEps == 1000000

VARIABLES
    sliders,          \* widget state: the seven slider positions
    button,           \* value returned by st.button in the current run
    pc,               \* position of the current script run
    length, diameter, height,
    whole_weight, shucked_weight, viscera_weight, shell_weight,
    shell_ratio, shucked_ratio,
    df_input,         \* the one-row frame handed to model.predict
    predict_calls,    \* calls of model.predict made by the current run
    y_pred, estimated_age,
    category, user_index,
    meat_percentage,  \* <<numerator, denominator>> of the percentage
    measurement_df,   \* the 'Value' column of the detail table
    page,             \* the elements rendered by the current run, in order,
                      \* each a pair <<kind, number shown>>
    exception         \* the exception that stopped the run, or "none"

vars == <<sliders, button, pc, length, diameter, height, whole_weight,
          shucked_weight, viscera_weight, shell_weight, shell_ratio,
          shucked_ratio, df_input, predict_calls, y_pred, estimated_age,
          category, user_index, meat_percentage, measurement_df, page,
          exception>>

scriptVars == <<length, diameter, height, whole_weight, shucked_weight,
                viscera_weight, shell_weight>>
resultVars == <<shell_ratio, shucked_ratio, df_input, predict_calls, y_pred,
                estimated_age, category, user_index, meat_percentage,
                measurement_df>>

-----------------------------------------------------------------------------
(* The sliders, lines 31-82: min_value, max_value and value in hundredths. *)
SliderNames == {"length", "diameter", "height", "whole_weight",
                "shucked_weight", "viscera_weight", "shell_weight"}

SliderMin == [n \in SliderNames |-> 0]

SliderMax == [length |-> 100, diameter |-> 100, height |-> 100,
              whole_weight |-> 300, shucked_weight |-> 200,
              viscera_weight |-> 100, shell_weight |-> 150]

SliderDefault == [length |-> 50, diameter |-> 40, height |-> 15,
                  whole_weight |-> 80, shucked_weight |-> 35,
                  viscera_weight |-> 18, shell_weight |-> 24]

\* The positions of slider n the user is taken to choose from: both ends,
\* the default, and GridN evenly spaced positions in between.
Positions(n) ==
    {SliderMin[n], SliderDefault[n], SliderMax[n]} \cup
    { SliderMin[n] + ((SliderMax[n] - SliderMin[n]) * k) \div (GridN + 1) :
        k \in 1..GridN }

\* The values model.predict may return (line 110), in thousandths.  The
\* model is a black box; the set holds negative values, zero and the values
\* on either side of each age threshold.
ModelOutputs == {-2000, -1500, 0, 5499, 5500, 10499, 10500, 16500}

-----------------------------------------------------------------------------
(* Pure computations of the handler.                                       *)

\* An element of the rendered page: its kind and, for a number, the number.
El(kind) == <<kind, 0>>

\* A gate that fires only when all seven sliders are at zero.
AllZeroGateSeven(l, d, h, w) ==
    /\ l = 0 /\ d = 0 /\ h = 0 /\ w = 0
    /\ shucked_weight = 0 /\ viscera_weight = 0 /\ shell_weight = 0

\* Line 88: the condition of the only validation the handler performs.
AllZeroGate(l, d, h, w) ==
    l = 0 /\ d = 0 /\ h = 0 /\ w = 0

\* Lines 93-94: part / (whole + 1e-8), as an exact fraction.
Ratio(part, whole) ==
    [num |-> part * HundredthInEps, den |-> whole * HundredthInEps + 1]

\* An age that is never allowed to fall below the offset.
EstimatedAgeClamped(rings) ==
    IF rings < 0 THEN AgeOffset ELSE rings + AgeOffset

\* Line 111.
EstimatedAge(rings) == rings + AgeOffset

\* A classification whose thresholds belong to the younger stage.
LifeStageInclusive(age) ==
    IF age <= 7000 THEN "Young"
    ELSE IF age <= 12000 THEN "Adult"
    ELSE "Mature"

\* Lines 133-141.
LifeStage(age) ==
    IF age < 7000 THEN "Young"
    ELSE IF age < 12000 THEN "Adult"
    ELSE "Mature"

\* Lines 199-206.
AgeBracket(age) ==
    IF age < 7000 THEN 0
    ELSE IF age < 12000 THEN 1
    ELSE IF age < 18000 THEN 2
    ELSE 3

\* f"{x:.1f}" of a value in thousandths: the number of tenths shown.
FormatTenths(x) ==
    LET q == x \div 100
        r == x % 100
    IN  IF r > 50 \/ (r = 50 /\ q % 2 = 1) THEN q + 1 ELSE q

\* f"{x:.3f}" of a value in hundredths: the number of thousandths shown.
FormatMilli(x) == x * 10

\* Lines 165-166 and 181-182: the value-label loop.  Each iteration binds
\* the script variable 'height' to bar.get_height(); the result is the
\* binding left when the loop ends.
RECURSIVE LabelBars(_, _, _)
LabelBars(bars, i, h) ==
    IF i > Len(bars) THEN h
    ELSE LabelBars(bars, i + 1, bars[i])

\* Lines 239-240: the wedge sizes of the pie.
PieSizes(w, s, v, sh) == <<s, v, sh, w - s - v - sh>>

\* Line 268: the guarded percentage, as <<numerator, denominator>>.
MeatPercentage(s, w) == IF w > 0 THEN <<s * 100, w>> ELSE <<0, 1>>

\* Lines 270-275.
Insight(mp) ==
    IF mp[1] > 45 * mp[2] THEN "success"
    ELSE IF mp[1] > 35 * mp[2] THEN "info"
    ELSE "insight_warning"

-----------------------------------------------------------------------------
Init ==
    /\ sliders = SliderDefault
    /\ button = FALSE
    /\ pc = "idle"
    /\ length = SliderDefault.length
    /\ diameter = SliderDefault.diameter
    /\ height = SliderDefault.height
    /\ whole_weight = SliderDefault.whole_weight
    /\ shucked_weight = SliderDefault.shucked_weight
    /\ viscera_weight = SliderDefault.viscera_weight
    /\ shell_weight = SliderDefault.shell_weight
    /\ shell_ratio = <<>>
    /\ shucked_ratio = <<>>
    /\ df_input = <<>>
    /\ predict_calls = 0
    /\ y_pred = 0
    /\ estimated_age = 0
    /\ category = ""
    /\ user_index = 0
    /\ meat_percentage = <<>>
    /\ measurement_df = <<>>
    /\ page = <<El("footer")>>
    /\ exception = "none"

\* Lines 31-82: a run rebinds the seven script variables from the widgets.
ReadSliders(s) ==
    /\ length' = s.length
    /\ diameter' = s.diameter
    /\ height' = s.height
    /\ whole_weight' = s.whole_weight
    /\ shucked_weight' = s.shucked_weight
    /\ viscera_weight' = s.viscera_weight
    /\ shell_weight' = s.shell_weight

\* A run starts in a fresh namespace: nothing of the last run survives.
FreshRun ==
    /\ shell_ratio' = <<>>
    /\ shucked_ratio' = <<>>
    /\ df_input' = <<>>
    /\ predict_calls' = 0
    /\ y_pred' = 0
    /\ estimated_age' = 0
    /\ category' = ""
    /\ user_index' = 0
    /\ meat_percentage' = <<>>
    /\ measurement_df' = <<>>
    /\ exception' = "none"

Resting == pc \in {"idle", "stopped"}

\* The user moves one slider.  Streamlit reruns the whole script with the
\* button reading False: lines 1-85 and 288-340 run, the handler does not.
MoveSlider ==
    /\ Resting
    /\ \E n \in SliderNames : \E v \in Positions(n) :
          /\ v # sliders[n]
          /\ sliders' = [sliders EXCEPT ![n] = v]
          /\ ReadSliders([sliders EXCEPT ![n] = v])
    /\ FreshRun
    /\ button' = FALSE
    /\ page' = <<El("footer")>>
    /\ pc' = "idle"

\* The user presses Predict: lines 1-85 of a run in which st.button is True.
ClickPredict ==
    /\ Resting
    /\ ReadSliders(sliders)
    /\ FreshRun
    /\ button' = TRUE
    /\ page' = <<>>
    /\ pc' = "validate"
    /\ UNCHANGED sliders

\* A gate without its else branch: the error is shown and the run goes on.
ValidateFallThrough ==
    /\ pc = "validate"
    /\ IF AllZeroGate(length, diameter, height, whole_weight)
         THEN page' = page \o <<El("error"), El("tip")>>
         ELSE page' = page
    /\ pc' = "features"
    /\ UNCHANGED <<sliders, button, scriptVars, resultVars, exception>>

\* Lines 88-91.
Validate ==
    /\ pc = "validate"
    /\ IF AllZeroGate(length, diameter, height, whole_weight)
         THEN /\ page' = page \o <<El("error"), El("tip")>>
              /\ pc' = "footer"
         ELSE /\ page' = page
              /\ pc' = "features"
    /\ UNCHANGED <<sliders, button, scriptVars, resultVars, exception>>

\* Lines 93-107.
BuildFeatures ==
    /\ pc = "features"
    /\ shell_ratio' = Ratio(shell_weight, whole_weight)
    /\ shucked_ratio' = Ratio(shucked_weight, whole_weight)
    /\ df_input' = << length, diameter, height, whole_weight, shucked_weight,
                      viscera_weight, shell_weight,
                      Ratio(shell_weight, whole_weight),
                      Ratio(shucked_weight, whole_weight) >>
    /\ pc' = "predict"
    /\ UNCHANGED <<sliders, button, scriptVars, predict_calls, y_pred,
                   estimated_age, category, user_index, meat_percentage,
                   measurement_df, page, exception>>

\* Lines 110-111.
Predict ==
    /\ pc = "predict"
    /\ \E r \in ModelOutputs :
          /\ y_pred' = r
          /\ estimated_age' = EstimatedAge(r)
    /\ predict_calls' = predict_calls + 1
    /\ pc' = "metrics"
    /\ UNCHANGED <<sliders, button, scriptVars, shell_ratio, shucked_ratio,
                   df_input, category, user_index, meat_percentage,
                   measurement_df, page, exception>>

\* Lines 114-146.
ShowMetrics ==
    /\ pc = "metrics"
    /\ category' = LifeStage(estimated_age)
    /\ page' = page \o << <<"rings", FormatTenths(y_pred)>>,
                          <<"age", FormatTenths(estimated_age)>>,
                          El("stage") >>
    /\ pc' = "profile"
    /\ UNCHANGED <<sliders, button, scriptVars, shell_ratio, shucked_ratio,
                   df_input, predict_calls, y_pred, estimated_age, user_index,
                   meat_percentage, measurement_df, exception>>

\* Lines 149-188: both bar charts and their value-label loops.
ShowProfile ==
    /\ pc = "profile"
    /\ LET dim_values == <<length, diameter, height>>
           weight_values == <<whole_weight, shucked_weight, viscera_weight,
                              shell_weight>>
           h1 == LabelBars(dim_values, 1, height)
       IN  height' = LabelBars(weight_values, 1, h1)
    /\ page' = Append(page, El("fig1"))
    /\ pc' = "agechart"
    /\ UNCHANGED <<sliders, button, length, diameter, whole_weight,
                   shucked_weight, viscera_weight, shell_weight, resultVars,
                   exception>>

\* Lines 191-227.
ShowAgeChart ==
    /\ pc = "agechart"
    /\ user_index' = AgeBracket(estimated_age)
    /\ page' = Append(page, El("fig2"))
    /\ pc' = "pie"
    /\ UNCHANGED <<sliders, button, scriptVars, shell_ratio, shucked_ratio,
                   df_input, predict_calls, y_pred, estimated_age, category,
                   meat_percentage, measurement_df, exception>>

\* Lines 230-256.  Axes.pie raises ValueError on a negative wedge size.  With
\* all sizes zero the normalisation divides zero by zero inside the library;
\* whether the figure is then drawn or the call fails depends on the
\* library version, so both outcomes are allowed.
ShowPie ==
    /\ pc = "pie"
    /\ LET sizes == PieSizes(whole_weight, shucked_weight, viscera_weight,
                             shell_weight)
           negative == \E i \in 1..4 : sizes[i] < 0
           empty == \A i \in 1..4 : sizes[i] = 0
       IN  \E fails \in BOOLEAN :
              /\ negative => fails
              /\ (~negative /\ ~empty) => ~fails
              /\ IF fails
                   THEN /\ exception' = "ValueError"
                        /\ page' = Append(page, El("exception"))
                        /\ pc' = "stopped"
                   ELSE /\ exception' = exception
                        /\ page' = Append(page, El("fig3"))
                        /\ pc' = "summary"
    /\ UNCHANGED <<sliders, button, scriptVars, resultVars>>

\* Lines 259-263.  The two percentages divide by whole_weight unguarded.
ShowSummary ==
    /\ pc = "summary"
    /\ IF whole_weight = 0
         THEN /\ exception' = "ZeroDivisionError"
              /\ page' = Append(page, El("exception"))
              /\ pc' = "stopped"
         ELSE /\ exception' = exception
              /\ page' = Append(page, El("summary"))
              /\ pc' = "insights"
    /\ UNCHANGED <<sliders, button, scriptVars, resultVars>>

\* Lines 264-275.
ShowInsights ==
    /\ pc = "insights"
    /\ meat_percentage' = MeatPercentage(shucked_weight, whole_weight)
    /\ page' = Append(page,
                      El(Insight(MeatPercentage(shucked_weight, whole_weight))))
    /\ pc' = "table"
    /\ UNCHANGED <<sliders, button, scriptVars, shell_ratio, shucked_ratio,
                   df_input, predict_calls, y_pred, estimated_age, category,
                   user_index, measurement_df, exception>>

\* Lines 278-286.
ShowTable ==
    /\ pc = "table"
    /\ measurement_df' = << FormatMilli(length), FormatMilli(diameter),
                            FormatMilli(height), FormatMilli(whole_weight),
                            FormatMilli(shucked_weight),
                            FormatMilli(viscera_weight),
                            FormatMilli(shell_weight) >>
    /\ page' = Append(page, El("table"))
    /\ pc' = "footer"
    /\ UNCHANGED <<sliders, button, scriptVars, shell_ratio, shucked_ratio,
                   df_input, predict_calls, y_pred, estimated_age, category,
                   user_index, meat_percentage, exception>>

\* Lines 288-340: the footer and the style sheet end every run that was not
\* stopped by an exception.
Footer ==
    /\ pc = "footer"
    /\ page' = Append(page, El("footer"))
    /\ pc' = "idle"
    /\ UNCHANGED <<sliders, button, scriptVars, resultVars, exception>>

Next ==
    \/ MoveSlider
    \/ ClickPredict
    \/ Validate
    \/ BuildFeatures
    \/ Predict
    \/ ShowMetrics
    \/ ShowProfile
    \/ ShowAgeChart
    \/ ShowPie
    \/ ShowSummary
    \/ ShowInsights
    \/ ShowTable
    \/ Footer

Spec == Init /\ [][Next]_vars

-----------------------------------------------------------------------------
(* Properties.  The sliders cannot move while a run is in progress, so in  *)
(* every state of a run in which the button read True, 'sliders' is the    *)
(* record the request was made with.                                       *)

\* C1: a request whose length, diameter, height and whole weight are all 0
\* ends validation with the blocking error and never calls model.predict,
\* whatever the three part weights are.
C1_AllZeroBlocked ==
    ( /\ button
      /\ sliders.length = 0 /\ sliders.diameter = 0
      /\ sliders.height = 0 /\ sliders.whole_weight = 0 )
    => /\ predict_calls = 0
       /\ pc \in {"validate", "footer", "idle"}
       /\ pc # "validate" => \E i \in 1..Len(page) : page[i][1] = "error"

C1_Witness ==
    /\ button /\ pc = "idle"
    /\ sliders.length = 0 /\ sliders.diameter = 0
    /\ sliders.height = 0 /\ sliders.whole_weight = 0
    /\ sliders.shucked_weight > 0 /\ sliders.shell_weight > 0
    /\ \E i \in 1..Len(page) : page[i][1] = "error"

\* C2: a request with shucked_weight > whole_weight is rejected by
\* validation with an error and model.predict is not called.
C2_ShuckedOverWholeBlocked ==
    ( /\ button
      /\ sliders.shucked_weight > sliders.whole_weight )
    => /\ predict_calls = 0
       /\ pc \notin {"validate", "features", "predict"}
            => \E i \in 1..Len(page) : page[i][1] = "error"

\* C3: a request whose three part weights sum to more than whole_weight is
\* rejected by validation and model.predict is not called.
C3_PartsOverWholeBlocked ==
    ( /\ button
      /\ sliders.shucked_weight + sliders.viscera_weight
           + sliders.shell_weight > sliders.whole_weight )
    => predict_calls = 0

\* C4: a request in which a dimension is 0 while whole_weight > 0 is
\* rejected by validation and model.predict is not called.
C4_ZeroDimensionBlocked ==
    ( /\ button
      /\ sliders.length = 0 \/ sliders.diameter = 0 \/ sliders.height = 0
      /\ sliders.whole_weight > 0 )
    => predict_calls = 0

\* C5: once the model has been called, the estimated age is the predicted
\* ring count plus exactly 1.5, also for zero and negative predictions; the
\* age shown is that value to one decimal, and the life stage is classified
\* from that value, unclamped and unrounded.
C5_AgeIsRingsPlusOffset ==
    predict_calls > 0 =>
       /\ estimated_age = y_pred + 1500
       /\ \A i \in 1..Len(page) :
             page[i][1] = "age" => page[i][2] = FormatTenths(y_pred + 1500)
       /\ category # "" =>
             category = IF y_pred + 1500 < 7000 THEN "Young"
                        ELSE IF y_pred + 1500 < 12000 THEN "Adult"
                        ELSE "Mature"

C5_Witness ==
    /\ predict_calls = 1
    /\ y_pred = -2000
    /\ estimated_age = -500
    /\ category = "Young"

\* C6: the life stage is exactly one of Young, Adult, Mature: Young iff
\* age < 7, Adult iff 7 <= age < 12, Mature iff age >= 12.
C6_LifeStageBands ==
    category # "" =>
       /\ category \in {"Young", "Adult", "Mature"}
       /\ category = "Young" <=> estimated_age < 7000
       /\ category = "Adult" <=> (7000 <= estimated_age /\ estimated_age < 12000)
       /\ category = "Mature" <=> estimated_age >= 12000

C6_Witness ==
    /\ category = "Adult"
    /\ estimated_age = 7000

\* C7: a request that passes validation with whole_weight = 0 computes its
\* weight percentages without dividing by zero and completes its output
\* with a meat percentage of 0.
C7_NoDivisionByZero ==
    ( /\ button
      /\ sliders.whole_weight = 0
      /\ ~ (sliders.length = 0 /\ sliders.diameter = 0 /\ sliders.height = 0) )
    => /\ exception # "ZeroDivisionError"
       /\ pc = "idle" => meat_percentage = <<0, 1>>

\* C8: within one request the steps run in the order validate, build
\* features, call the model, format output: model.predict is called at most
\* once and only after validation showed no error and the features were
\* built, output appears only after the call, and a request whose validation
\* showed an error produces no prediction output.
C8_LinearOrder ==
    LET OutputKinds == {"rings", "age", "stage", "fig1", "fig2", "fig3",
                        "summary", "success", "info", "insight_warning",
                        "table"}
        error == \E i \in 1..Len(page) : page[i][1] = "error"
        output == \/ \E i \in 1..Len(page) : page[i][1] \in OutputKinds
                  \/ category # ""
                  \/ measurement_df # <<>>
    IN  /\ predict_calls <= 1
        /\ pc = "validate" => (df_input = <<>> /\ predict_calls = 0)
        /\ df_input # <<>> => ~ error
        /\ predict_calls = 1 => (df_input # <<>> /\ ~ error)
        /\ output => predict_calls = 1
        /\ error => (predict_calls = 0 /\ ~ output)

C8_Witness ==
    /\ button /\ pc = "idle"
    /\ predict_calls = 1
    /\ measurement_df # <<>>
    /\ \E i \in 1..Len(page) : page[i][1] = "table"

\* C9: a request that violates no hard invariant but has diameter > length
\* or height > diameter gets at least one warning and no error from
\* validation, and the warning is on the page when inference proceeds.
C9_SoftViolationWarns ==
    LET l == sliders.length
        d == sliders.diameter
        h == sliders.height
        w == sliders.whole_weight
        s == sliders.shucked_weight
        v == sliders.viscera_weight
        sh == sliders.shell_weight
        hardOk == /\ ~ (l = 0 /\ d = 0 /\ h = 0 /\ w = 0)
                  /\ s <= w /\ v <= w /\ sh <= w
                  /\ s + v + sh <= w
                  /\ (l = 0 \/ d = 0 \/ h = 0) => w = 0
                  /\ w * 10000 <= 400 * l * d * h + 4
    IN  ( button /\ hardOk /\ (d > l \/ h > d) /\ predict_calls = 1 )
        => /\ \E i \in 1..Len(page) : page[i][1] = "warning"
           /\ ~ \E i \in 1..Len(page) : page[i][1] = "error"

\* C10: rendering leaves the seven measurements unchanged: the values of
\* the detail table are the values entered on the sliders, which are the
\* values passed to the model.
C10_TableShowsInputs ==
    measurement_df # <<>> =>
       /\ measurement_df =
             << FormatMilli(sliders.length), FormatMilli(sliders.diameter),
                FormatMilli(sliders.height), FormatMilli(sliders.whole_weight),
                FormatMilli(sliders.shucked_weight),
                FormatMilli(sliders.viscera_weight),
                FormatMilli(sliders.shell_weight) >>
       /\ \A i \in 1..7 : measurement_df[i] = FormatMilli(df_input[i])

====
